---- MODULE Spec2Model ----
(***************************************************************************)
(* Grant pipelines of node-oauth2-server (zipongo fork):                   *)
(*   lib/grant.js      the full request pipeline (Grant)                   *)
(*   lib/grantBase.js  the shared client check and token lifecycle         *)
(*   unnamed/part_000  the two pre-approved variants (lines 1-247 is the   *)
(*                     stand-alone one, "preOld"; lines 249-391 is the one *)
(*                     built on GrantBase, "preNew")                       *)
(* Each request owns one grant context ctx[r]; the runner walks the list   *)
(* of steps; every storage call and every token generation is a call      *)
(* action followed by a callback action whose answer is drawn with \E.     *)
(***************************************************************************)
EXTENDS Integers, Sequences, FiniteSets, TLC

VARIABLES config, clock, reqs, ctx, scenario, revoked

vars == <<config, clock, reqs, ctx, scenario, revoked>>

(***************************************************************************)
(* Bounds and input values                                                 *)
(***************************************************************************)
StartTime == 10
\* how far the wall clock may run ahead during one request
MaxTicks == 2
ScalarLifetime == 60
OverrideLifetime == 30

\* JavaScript values that are not numbers, encoded in the integer fields
Null == -1
Undefined == -2
InvalidDate == -3
\* an absent (undefined) string-valued field
NoStr == "<undefined>"

Falsy(s) == s \in {NoStr, ""}

ClientIds == {"c1", "c2"}
BadClientId == "bad id"

\* ---- lifetime values: null, a number of seconds, or a per-client mapping
NoMap == [c \in ClientIds |-> Undefined]
LNull == [tag |-> "null", n |-> Null, map |-> NoMap]
LUndef == [tag |-> "undefined", n |-> Undefined, map |-> NoMap]
LNum(n) == [tag |-> "number", n |-> n, map |-> NoMap]
LMap(m) == [tag |-> "object", n |-> Undefined, map |-> m]
LifetimeConfigs ==
  {LNull, LNum(ScalarLifetime),
   LMap([c \in ClientIds |-> IF c = "c1" THEN OverrideLifetime ELSE Undefined])}

\* lifetime[clientId]: a property read; on null it throws (see Throws)
Index(l, cid) ==
  IF l.tag = "object" /\ cid \in ClientIds /\ l.map[cid] # Undefined
  THEN LNum(l.map[cid])
  ELSE LUndef
Throws(l) == l.tag \in {"null", "undefined"}

\* an expiry computed from the wall clock at the time of the save
AddSecondsToClock(now, l) == IF l.tag = "number" THEN clock + l.n ELSE InvalidDate

\* new Date(now) then setSeconds(getSeconds() + lifetime)
AddSeconds(now, l) == IF l.tag = "number" THEN now + l.n ELSE InvalidDate

\* a < b on a date-or-null left operand and a date right operand
JsLess(a, b) ==
  IF a = Null THEN 0 < b
  ELSE IF a \in {Undefined, InvalidDate} THEN FALSE
  ELSE a < b

\* ---- tokens: undefined, a string, or a reissue marker object
UndefTok == [t |-> "undefined", s |-> NoStr, accessToken |-> NoStr, refreshToken |-> NoStr]
Str(x) == [t |-> "string", s |-> x, accessToken |-> NoStr, refreshToken |-> NoStr]
AccessMarker(x) == [t |-> "object", s |-> NoStr, accessToken |-> x, refreshToken |-> NoStr]
RefreshMarker(x) == [t |-> "object", s |-> NoStr, accessToken |-> NoStr, refreshToken |-> x]
TokTruthy(tok) == tok.t = "object" \/ (tok.t = "string" /\ ~Falsy(tok.s))

\* ---- users
NoUser == [present |-> FALSE, id |-> NoStr]
UserWithId == [present |-> TRUE, id |-> "u7"]
UserNoId == [present |-> TRUE, id |-> NoStr]
FromUserId(uid) == [present |-> TRUE, id |-> uid]

\* ---- errors
NoCause == [type |-> NoStr, message |-> NoStr]
StorageErrs == {[type |-> NoStr, message |-> "db down"],
                [type |-> "custom_kind", message |-> "rejected"]}
TokenErr == [kind |-> "token_error", message |-> "generator failed", cause |-> NoCause]
NoErr == [kind |-> NoStr, message |-> NoStr, cause |-> NoCause]
error(kind, message, cause) == [kind |-> kind, message |-> message, cause |-> cause]

\* ---- responses
NoResponse == [token_type |-> NoStr, access_token |-> UndefTok,
               expires_in |-> LUndef, refresh_token |-> UndefTok]

\* ---- the configured patterns (config.regex), as the sets they accept
BuiltinGrants == {"authorization_code", "password", "refresh_token", "client_credentials"}
ExtGrant == "urn:custom:foo"
MatchesGrantTypeRegex(g) == g \in BuiltinGrants \cup {ExtGrant}
MatchesClientIdRegex(id) == id \in ClientIds
\* a dispatcher that takes no grant type for an extension
MatchesNoExtension(g) == FALSE

\* /^[a-zA-Z][a-zA-Z0-9+.-]+:/
MatchesExtensionPattern(g) == g = ExtGrant

\* ---- requests
NoBasic == [present |-> FALSE, name |-> NoStr, pass |-> NoStr]
Basic(n, p) == [present |-> TRUE, name |-> n, pass |-> p]
NoPayload == [present |-> FALSE, grant_type |-> NoStr, client_id |-> NoStr,
              client_secret |-> NoStr, code |-> NoStr, username |-> NoStr,
              password |-> NoStr, refresh_token |-> NoStr]
Payload(g, id, sec, code, un, pw, rt) ==
  [present |-> TRUE, grant_type |-> g, client_id |-> id, client_secret |-> sec,
   code |-> code, username |-> un, password |-> pw, refresh_token |-> rt]
Creds ==
  {<<NoBasic, id, sec>> : id \in {NoStr, BadClientId, "c1", "c2"}, sec \in {NoStr, "s1"}}
  \cup {<<Basic("c1", "s1"), "c2", "s1">>, <<Basic("c1", NoStr), "c1", "s1">>}
GrantFields ==
  {<<g, NoStr, NoStr, NoStr, NoStr>> : g \in {NoStr, "bogus", "client_credentials", ExtGrant}}
  \cup {<<"authorization_code", c, NoStr, NoStr, NoStr>> : c \in {NoStr, "code1"}}
  \cup {<<"password", NoStr, u, p, NoStr>> : u \in {NoStr, "alice"}, p \in {NoStr, "pw"}}
  \cup {<<"refresh_token", NoStr, NoStr, NoStr, t>> : t \in {NoStr, "rt0"}}
Transports ==
  {<<m, ct>> : m \in {"post", "get"},
               ct \in {"application/x-www-form-urlencoded", "application/json"}}
Requests ==
  {[method |-> tr[1], mime |-> tr[2], basic |-> cr[1],
    payload |-> Payload(gf[1], cr[2], cr[3], gf[2], gf[3], gf[4], gf[5])] :
      tr \in {<<"post", "application/x-www-form-urlencoded">>},
      cr \in Creds, gf \in GrantFields}
  \cup {[method |-> tr[1], mime |-> tr[2], basic |-> NoBasic,
         payload |-> Payload(g, id, "s1", NoStr, NoStr, NoStr, NoStr)] :
           tr \in Transports, g \in {NoStr, "client_credentials"}, id \in {NoStr, "c1"}}
  \cup {[method |-> "post", mime |-> "application/x-www-form-urlencoded",
         basic |-> b, payload |-> NoPayload] : b \in {NoBasic, Basic("c1", "s1")}}
NoRequest == [method |-> NoStr, mime |-> NoStr, basic |-> NoBasic, payload |-> NoPayload]

PreApprovedInputs ==
  [user : {NoUser, UserWithId, UserNoId},
   client_id : {NoStr, BadClientId, "c1", "c2"},
   client_secret : {NoStr, "s1"},
   grant_type : {NoStr, "password"}]
NoPreApproved == [user |-> NoUser, client_id |-> NoStr, client_secret |-> NoStr,
                  grant_type |-> NoStr]

\* ---- the inputs of one scenario: "any" is every input above; the other
\* scenarios keep the well-formed requests of the grant they exercise
WellFormed(g, id, code, un, pw, rt) ==
  [method |-> "post", mime |-> "application/x-www-form-urlencoded", basic |-> NoBasic,
   payload |-> Payload(g, id, "s1", code, un, pw, rt)]
RequestsIn(s) ==
  IF s = "any" THEN Requests
  ELSE IF s = "pair"
  THEN {WellFormed("password", id, NoStr, "alice", "pw", NoStr) : id \in ClientIds}
  ELSE IF s = "refresh"
  THEN {WellFormed("refresh_token", "c1", NoStr, NoStr, NoStr, "rt0")}
  ELSE {WellFormed("authorization_code", "c1", "code1", NoStr, NoStr, NoStr),
        WellFormed("refresh_token", "c1", NoStr, NoStr, NoStr, "rt0"),
        WellFormed("password", "c1", NoStr, "alice", "pw", NoStr)}
PreApprovedIn(s) ==
  IF s = "any" THEN PreApprovedInputs
  ELSE [user : {UserWithId}, client_id : ClientIds, client_secret : {"s1"},
        grant_type : {NoStr, "password"}]

\* ---- Client (grant.js 104-107, part_000 96-99 and 325-328)
Client(id, secret) == [clientId |-> id, clientSecret |-> secret]
UndefClient == Client(NoStr, NoStr)
NoClientModel == [present |-> FALSE, id |-> NoStr]
ClientRecord(id) == [present |-> TRUE, id |-> id]


\* ---- history: events of one request, and the storage calls it made
Ev(e, x) == [e |-> e, x |-> x]
StorageCall(op, key, token, clientId, expires, user, grantType) ==
  [op |-> op, key |-> key, token |-> token, clientId |-> clientId,
   expires |-> expires, user |-> user, grantType |-> grantType]
\* a lookup: only string arguments
Lookup(op, key, clientId, grantType) ==
  StorageCall(op, key, UndefTok, clientId, Undefined, NoUser, grantType)

(***************************************************************************)
(* The step lists                                                          *)
(***************************************************************************)
\* a step list that answers before the refresh token is saved
GrantFnsEarlyResponse ==
  <<"extractCredentials", "checkClient", "exposeClient", "checkGrantTypeAllowed",
    "checkGrantType", "exposeUser", "generateAccessToken", "saveAccessToken",
    "generateRefreshToken", "sendResponse", "saveRefreshToken">>

\* a step list that looks the grant up before asking whether the client
\* may use the grant type
GrantFnsAllowedLate ==
  <<"extractCredentials", "checkClient", "exposeClient", "checkGrantType",
    "checkGrantTypeAllowed", "exposeUser", "generateAccessToken", "saveAccessToken",
    "generateRefreshToken", "saveRefreshToken", "sendResponse">>

\* a step list that answers before the access token is saved
GrantFnsResponseFirst ==
  <<"extractCredentials", "checkClient", "exposeClient", "checkGrantTypeAllowed",
    "checkGrantType", "exposeUser", "generateAccessToken", "sendResponse",
    "saveAccessToken", "generateRefreshToken", "saveRefreshToken">>

\* a step list that saves the refresh token before the access token
GrantFnsRefreshSavedFirst ==
  <<"extractCredentials", "checkClient", "exposeClient", "checkGrantTypeAllowed",
    "checkGrantType", "exposeUser", "generateAccessToken", "generateRefreshToken",
    "saveRefreshToken", "saveAccessToken", "sendResponse">>

GrantFns ==
  <<"extractCredentials", "checkClient", "exposeClient", "checkGrantTypeAllowed",
    "checkGrantType", "exposeUser", "generateAccessToken", "saveAccessToken",
    "generateRefreshToken", "saveRefreshToken", "sendResponse">>
PreOldFns ==
  <<"extractPreApprovedCredentials", "checkClient", "checkGrantType",
    "generateAccessToken", "saveAccessToken", "generateRefreshToken",
    "saveRefreshToken", "returnPreApprovedResponse">>
PreNewFns ==
  <<"extractPreApprovedCredentials", "checkClient", "checkGrantType",
    "generateAccessToken", "saveAccessToken", "generateRefreshToken",
    "saveRefreshToken", "returnPreApprovedResponse">>
fns(kind) ==
  IF kind = "grant" THEN GrantFns
  ELSE IF kind = "preOld" THEN PreOldFns
  ELSE PreNewFns

(***************************************************************************)
(* Grant context                                                           *)
(***************************************************************************)
NoRecord == [clientId |-> NoStr, expires |-> Undefined, user |-> NoUser, userId |-> NoStr]
NoResult == [called |-> 0, err |-> NoErr, response |-> NoResponse]
\* what extendedGrant answered: callback(err, supported, user)
NoExtAnswer == [given |-> FALSE, supported |-> FALSE, user |-> NoUser]
ExtAnswer(supported, user) == [given |-> TRUE, supported |-> supported, user |-> user]
IdleContext ==
  [kind |-> "none", phase |-> "idle", pos |-> 0, now |-> Undefined,
   req |-> NoRequest, preApproved |-> NoPreApproved,
   grantType |-> NoStr, client |-> UndefClient, clientModel |-> NoClientModel,
   user |-> NoUser, accessToken |-> UndefTok, refreshToken |-> UndefTok,
   appUser |-> NoUser, appOauthClient |-> NoClientModel,
   sent |-> NoResponse, result |-> NoResult,
   \* history: what the request did and was answered
   log |-> <<>>, calls |-> <<>>, cbErr |-> NoErr, storageErr |-> NoCause,
   record |-> NoRecord, genAccess |-> UndefTok, genRefresh |-> UndefTok,
   gotClient |-> NoClientModel, allowed |-> NoStr, ext |-> NoExtAnswer]

\* GrantBase(config): this.now = new Date()
GrantBase(c, now) == [c EXCEPT !.now = now]

Configs ==
  [grants : {BuiltinGrants, BuiltinGrants \ {"refresh_token"}},
   accessTokenLifetime : LifetimeConfigs,
   refreshTokenLifetime : LifetimeConfigs,
   continueAfterResponse : BOOLEAN,
   hasRevokeRefreshToken : BOOLEAN,
   hasExtendedGrant : BOOLEAN]

Init ==
  /\ config \in Configs
  /\ clock = StartTime
  /\ reqs = {1}
  /\ ctx = [r \in reqs |-> IdleContext]
  /\ scenario = "any"
  /\ revoked = {}

(***************************************************************************)
(* The runner                                                              *)
(***************************************************************************)
\* a runner that forgets to stop on an error
runnerNoStop(c, err, response) ==
  IF c.pos = Len(fns(c.kind))
  THEN [c EXCEPT !.phase = "finished",
                 !.result = [called |-> @.called + 1, err |-> NoErr, response |-> response],
                 !.log = Append(@, Ev("next", NoStr))]
  ELSE [c EXCEPT !.pos = @ + 1, !.phase = "ready"]

\* a runner that drops an error instead of handing it to the completion
\* callback
runnerDropsError(c, err, response) ==
  IF err # NoErr
  THEN [c EXCEPT !.phase = "stalled"]
  ELSE IF c.pos = Len(fns(c.kind))
  THEN [c EXCEPT !.phase = "finished",
                 !.result = [called |-> @.called + 1, err |-> NoErr, response |-> response],
                 !.log = Append(@, Ev("next", NoStr))]
  ELSE [c EXCEPT !.pos = @ + 1, !.phase = "ready"]

\* the callback the runner hands to fns[pos] (part_000 27-32, 275-280)
runner(c, err, response) ==
  IF err # NoErr
  THEN [c EXCEPT !.phase = "finished",
                 !.result = [called |-> @.called + 1, err |-> err, response |-> NoResponse],
                 !.log = Append(@, Ev("next", err.kind))]
  ELSE IF c.pos = Len(fns(c.kind))
  THEN [c EXCEPT !.phase = "finished",
                 !.result = [called |-> @.called + 1, err |-> NoErr, response |-> response],
                 !.log = Append(@, Ev("next", NoStr))]
  ELSE [c EXCEPT !.pos = @ + 1, !.phase = "ready"]

\* require('./runner') of grant.js: the Step Runner of the specification
requestRunner(c, err, response) ==
  IF err # NoErr
  THEN [c EXCEPT !.phase = "finished",
                 !.result = [called |-> @.called + 1, err |-> err, response |-> NoResponse],
                 !.log = Append(@, Ev("next", err.kind))]
  ELSE IF c.pos = Len(fns(c.kind))
  THEN [c EXCEPT !.phase = "finished",
                 !.result = [called |-> @.called + 1, err |-> NoErr, response |-> response],
                 !.log = Append(@, Ev("next", NoStr))]
  ELSE [c EXCEPT !.pos = @ + 1, !.phase = "ready"]

\* a step calls the callback it was given: done(err, response)
done(c, err, response) ==
  LET d == [c EXCEPT !.cbErr = err, !.log = Append(@, Ev("done", fns(c.kind)[c.pos]))]
  IN  IF c.kind = "grant" THEN requestRunner(d, err, response)
      ELSE runner(d, err, response)

\* the runner is about to call the step called name
AtStep(c, name) == c.phase = "ready" /\ fns(c.kind)[c.pos] = name
\* the step called name has an asynchronous call in flight
Awaiting(c, name, op) == c.phase = op /\ fns(c.kind)[c.pos] = name
Begin(c) == [c EXCEPT !.log = Append(@, Ev("start", fns(c.kind)[c.pos]))]
Issue(c, call) ==
  [c EXCEPT !.phase = call.op, !.calls = Append(@, call),
            !.log = Append(@, Ev("call", call.op))]
Answered(c, op, outcome) == [c EXCEPT !.log = Append(@, Ev(outcome, op))]
Failed(c, op, err) == [c EXCEPT !.log = Append(@, Ev("fail", op)), !.storageErr = err]
Set(r, c) == /\ ctx' = [ctx EXCEPT ![r] = c]
             /\ UNCHANGED <<config, clock, reqs, scenario, revoked>>

(***************************************************************************)
(* lib/grant.js: constructor and extraction                                *)
(***************************************************************************)
\* Grant(config, req, res, next)
Grant(r) ==
  /\ ctx[r].phase = "idle"
  /\ \E req \in RequestsIn(scenario) :
       Set(r, [GrantBase(ctx[r], clock) EXCEPT
                 !.kind = "grant", !.req = req, !.pos = 1, !.phase = "ready"])

\* an extraction that never looks at the basic-auth header
credsFromBasicIgnored(req) == [found |-> FALSE, client |-> UndefClient]

credsFromBasic(req) ==
  IF ~req.basic.present THEN [found |-> FALSE, client |-> UndefClient]
  ELSE [found |-> TRUE, client |-> Client(req.basic.name, req.basic.pass)]

credsFromBody(req) == Client(req.payload.client_id, req.payload.client_secret)

extractCredentials(r) ==
  /\ AtStep(ctx[r], "extractCredentials")
  /\ LET c == Begin(ctx[r])
         req == c.req
         gt == IF req.payload.present THEN req.payload.grant_type ELSE NoStr
         cg == [c EXCEPT !.grantType = gt]
         cl == IF credsFromBasic(req).found THEN credsFromBasic(req).client
               ELSE credsFromBody(req)
         cc == [cg EXCEPT !.client = cl]
     IN  IF req.method # "post" \/ req.mime # "application/x-www-form-urlencoded"
         THEN Set(r, done(c, error("invalid_request",
                "Method must be POST with application/x-www-form-urlencoded encoding",
                NoCause), NoResponse))
         ELSE IF Falsy(gt) \/ ~MatchesGrantTypeRegex(gt)
         THEN Set(r, done(cg, error("invalid_request",
                "Invalid or missing grant_type parameter", NoCause), NoResponse))
         ELSE IF Falsy(cl.clientId) \/ ~MatchesClientIdRegex(cl.clientId)
         THEN Set(r, done(cc, error("invalid_client",
                "Invalid or missing client_id parameter", NoCause), NoResponse))
         ELSE IF Falsy(cl.clientSecret)
         THEN Set(r, done(cc, error("invalid_client",
                "Missing client_secret parameter", NoCause), NoResponse))
         ELSE Set(r, done(cc, NoErr, NoResponse))

(***************************************************************************)
(* lib/token.js is not part of the sources: the token-producing capability *)
(* of the specification, generate(context, kind) -> token | reissueMarker, *)
(* or an error that the step propagates verbatim                           *)
(***************************************************************************)
token(type) ==
  {[err |-> TokenErr, token |-> UndefTok]}
  \cup (IF type = "accessToken"
        THEN {[err |-> NoErr, token |-> Str("at1")],
              [err |-> NoErr, token |-> AccessMarker("at0")]}
        ELSE {[err |-> NoErr, token |-> Str("rt1")],
              [err |-> NoErr, token |-> RefreshMarker("rt0")]})

CallToken(c, type) ==
  [c EXCEPT !.phase = "token", !.log = Append(@, Ev("call", type))]

Throw(c) ==
  [c EXCEPT !.phase = "thrown", !.log = Append(@, Ev("throw", fns(c.kind)[c.pos]))]

(***************************************************************************)
(* lib/grantBase.js                                                        *)
(***************************************************************************)
UsesGrantBase(c) == c.kind \in {"grant", "preNew"}

checkClient(r) ==
  /\ AtStep(ctx[r], "checkClient") /\ UsesGrantBase(ctx[r])
  /\ LET c == Begin(ctx[r])
     IN  Set(r, Issue(c, Lookup("getClient", c.client.clientSecret,
                                c.client.clientId, NoStr)))

\* the callback of getClient; its "this" is not the grant context, so the
\* assignment this.clientModel = client does not reach ctx[r].clientModel
getClientCallback(r) ==
  /\ Awaiting(ctx[r], "checkClient", "getClient") /\ UsesGrantBase(ctx[r])
  /\ LET c == ctx[r]
     IN  \/ \E err \in StorageErrs :
              Set(r, done(Failed(c, "getClient", err),
                          error("server_error", NoStr, err), NoResponse))
         \/ Set(r, done(Answered(c, "getClient", "ok"),
                        error("invalid_client", "Client credentials are invalid", NoCause),
                        NoResponse))
         \/ \E client \in {ClientRecord(c.client.clientId)} :
              Set(r, done([Answered(c, "getClient", "ok") EXCEPT !.gotClient = client],
                          NoErr, NoResponse))

generateAccessToken(r) ==
  /\ AtStep(ctx[r], "generateAccessToken")
  /\ Set(r, CallToken(Begin(ctx[r]), "accessToken"))

generateAccessTokenCallback(r) ==
  /\ Awaiting(ctx[r], "generateAccessToken", "token")
  /\ \E out \in token("accessToken") :
       Set(r, done([ctx[r] EXCEPT !.accessToken = out.token, !.genAccess = out.token],
                   out.err, NoResponse))

\* a reissue test that never recognises a marker
IsReissueNever(tok, field) == FALSE

\* typeof t === 'object' && t[field]
IsReissue(tok, field) == tok.t = "object" /\ ~Falsy(tok[field])

\* a collapse that keeps the marker object
collapseKeepsMarker(tok, field) == tok

\* this.accessToken = accessToken.accessToken (and the refresh twin)
collapse(tok, field) == Str(tok[field])

\* grantBase.js 86-90 and 137-141: the per-client override
resolveLifetime(lifetime, clientId) ==
  IF Index(lifetime, clientId) # LUndef THEN Index(lifetime, clientId) ELSE lifetime

\* grantBase.js 85, 91-94 and 136, 142-145
computeExpires(now, lifetime) ==
  IF lifetime # LNull THEN AddSeconds(now, lifetime) ELSE Null

saveAccessToken(r) ==
  /\ AtStep(ctx[r], "saveAccessToken") /\ UsesGrantBase(ctx[r])
  /\ LET c == Begin(ctx[r])
         accessToken == c.accessToken
         lifetime == resolveLifetime(config.accessTokenLifetime, c.client.clientId)
         expires == computeExpires(c.now, lifetime)
     IN  IF IsReissue(accessToken, "accessToken")
         THEN Set(r, done([c EXCEPT !.accessToken = collapse(accessToken, "accessToken"),
                                    !.log = Append(@, Ev("reissue", "accessToken"))],
                          NoErr, NoResponse))
         ELSE IF Throws(config.accessTokenLifetime)
         THEN Set(r, Throw(c))
         ELSE Set(r, Issue(c, StorageCall("saveAccessToken", NoStr, accessToken,
                                          c.client.clientId, expires, c.user, c.grantType)))

saveAccessTokenCallback(r) ==
  /\ Awaiting(ctx[r], "saveAccessToken", "saveAccessToken") /\ UsesGrantBase(ctx[r])
  /\ LET c == ctx[r]
     IN  \/ \E err \in StorageErrs :
              Set(r, done(Failed(c, "saveAccessToken", err),
                          error("server_error", NoStr, err), NoResponse))
         \/ Set(r, done(Answered(c, "saveAccessToken", "ok"), NoErr, NoResponse))

\* a configuration test that takes the refresh_token grant as always enabled
RefreshGrantAlwaysConfigured(grants) == TRUE

\* this.config.grants.indexOf('refresh_token') !== -1
RefreshGrantConfigured(grants) == "refresh_token" \in grants

generateRefreshToken(r) ==
  /\ AtStep(ctx[r], "generateRefreshToken")
  /\ LET c == Begin(ctx[r])
     IN  IF ~RefreshGrantConfigured(config.grants)
         THEN Set(r, done(c, NoErr, NoResponse))
         ELSE Set(r, CallToken(c, "refreshToken"))

generateRefreshTokenCallback(r) ==
  /\ Awaiting(ctx[r], "generateRefreshToken", "token")
  /\ \E out \in token("refreshToken") :
       Set(r, done([ctx[r] EXCEPT !.refreshToken = out.token, !.genRefresh = out.token],
                   out.err, NoResponse))

saveRefreshToken(r) ==
  /\ AtStep(ctx[r], "saveRefreshToken") /\ UsesGrantBase(ctx[r])
  /\ LET c == Begin(ctx[r])
         refreshToken == c.refreshToken
         lifetime == resolveLifetime(config.refreshTokenLifetime, c.client.clientId)
         expires == computeExpires(c.now, lifetime)
     IN  IF ~TokTruthy(refreshToken)
         THEN Set(r, done(c, NoErr, NoResponse))
         ELSE IF IsReissue(refreshToken, "refreshToken")
         THEN Set(r, done([c EXCEPT !.refreshToken = collapse(refreshToken, "refreshToken"),
                                    !.log = Append(@, Ev("reissue", "refreshToken"))],
                          NoErr, NoResponse))
         ELSE IF Throws(config.refreshTokenLifetime)
         THEN Set(r, Throw(c))
         ELSE Set(r, Issue(c, StorageCall("saveRefreshToken", NoStr, refreshToken,
                                          c.client.clientId, expires, c.user, NoStr)))

saveRefreshTokenCallback(r) ==
  /\ Awaiting(ctx[r], "saveRefreshToken", "saveRefreshToken") /\ UsesGrantBase(ctx[r])
  /\ LET c == ctx[r]
     IN  \/ \E err \in StorageErrs :
              Set(r, done(Failed(c, "saveRefreshToken", err),
                          error("server_error", NoStr, err), NoResponse))
         \/ Set(r, done(Answered(c, "saveRefreshToken", "ok"), NoErr, NoResponse))

(***************************************************************************)
(* lib/grant.js: the steps after extraction                                *)
(***************************************************************************)
exposeClient(r) ==
  /\ AtStep(ctx[r], "exposeClient")
  /\ LET c == Begin(ctx[r])
     IN  Set(r, done([c EXCEPT !.appOauthClient = c.clientModel], NoErr, NoResponse))

checkGrantTypeAllowed(r) ==
  /\ AtStep(ctx[r], "checkGrantTypeAllowed")
  /\ LET c == Begin(ctx[r])
     IN  Set(r, Issue(c, Lookup("grantTypeAllowed", NoStr, c.client.clientId, c.grantType)))

grantTypeAllowedCallback(r) ==
  /\ Awaiting(ctx[r], "checkGrantTypeAllowed", "grantTypeAllowed")
  /\ LET c == ctx[r]
     IN  \/ \E err \in StorageErrs :
              Set(r, done(Failed(c, "grantTypeAllowed", err),
                          error("server_error", NoStr, err), NoResponse))
         \/ \E allowed \in BOOLEAN :
              LET a == [Answered(c, "grantTypeAllowed", "ok") EXCEPT
                          !.allowed = IF allowed THEN "true" ELSE "false"]
              IN  IF ~allowed
                  THEN Set(r, done(a, error("invalid_client",
                                            "The grant type is unauthorised for this client_id",
                                            NoCause), NoResponse))
                  ELSE Set(r, done(a, NoErr, NoResponse))

useExtendedGrant(c) ==
  Issue(c, Lookup("extendedGrant", NoStr, NoStr, c.grantType))

useAuthCodeGrant(c) ==
  IF Falsy(c.req.payload.code)
  THEN done(c, error("invalid_request", "No \"code\" parameter", NoCause), NoResponse)
  ELSE Issue(c, Lookup("getAuthCode", c.req.payload.code, NoStr, NoStr))

usePasswordGrant(c) ==
  IF Falsy(c.req.payload.username) \/ Falsy(c.req.payload.password)
  THEN done(c, error("invalid_client",
                     "Missing parameters. \"username\" and \"password\" are required",
                     NoCause), NoResponse)
  ELSE Issue(c, Lookup("getUser", c.req.payload.username, NoStr, NoStr))

useRefreshTokenGrant(c) ==
  IF Falsy(c.req.payload.refresh_token)
  THEN done(c, error("invalid_request", "No \"refresh_token\" parameter", NoCause),
            NoResponse)
  ELSE Issue(c, Lookup("getRefreshToken", c.req.payload.refresh_token, NoStr, NoStr))

useClientCredentialsGrant(c) ==
  IF Falsy(c.client.clientId) \/ Falsy(c.client.clientSecret)
  THEN done(c, error("invalid_client",
                     "Missing parameters. \"client_id\" and \"client_secret\" are required",
                     NoCause), NoResponse)
  ELSE Issue(c, Lookup("getUserFromClient", c.client.clientSecret, c.client.clientId, NoStr))

checkGrantType(r) ==
  /\ AtStep(ctx[r], "checkGrantType") /\ ctx[r].kind = "grant"
  /\ LET c == Begin(ctx[r])
     IN  IF MatchesExtensionPattern(c.grantType) /\ config.hasExtendedGrant
         THEN Set(r, useExtendedGrant(c))
         ELSE IF c.grantType = "authorization_code" THEN Set(r, useAuthCodeGrant(c))
         ELSE IF c.grantType = "password" THEN Set(r, usePasswordGrant(c))
         ELSE IF c.grantType = "refresh_token" THEN Set(r, useRefreshTokenGrant(c))
         ELSE IF c.grantType = "client_credentials"
         THEN Set(r, useClientCredentialsGrant(c))
         ELSE Set(r, done(c, error("invalid_request",
                                   "Invalid grant_type parameter or parameter missing",
                                   NoCause), NoResponse))

\* what getAuthCode and getRefreshToken may return for a found record
TokenRecords(now) ==
  {[clientId |-> cid, expires |-> e, user |-> u[1], userId |-> u[2]] :
     cid \in ClientIds, e \in {Null, now - 1, now, now + 1},
     u \in {<<NoUser, NoStr>>, <<NoUser, "u7">>, <<UserWithId, NoStr>>, <<UserNoId, NoStr>>}}

\* rec.user || { id: rec.userId }
UserOf(rec) == IF rec.user.present THEN rec.user ELSE FromUserId(rec.userId)

\* a client test that accepts the record of any client
issuedToAnyone(rec, client) == FALSE

\* authCode.clientId !== self.client.clientId (and the refresh-token twin)
issuedToAnother(rec, client) == rec.clientId # client.clientId

\* authCode.expires < self.now
authCodeExpired(authCode, now) == JsLess(authCode.expires, now)

\* an expiry test with the comparison turned round
refreshTokenExpiredInverted(refreshToken, now) ==
  refreshToken.expires # Null /\ JsLess(now, refreshToken.expires)

\* refreshToken.expires !== null && refreshToken.expires < self.now
refreshTokenExpired(refreshToken, now) ==
  refreshToken.expires # Null /\ JsLess(refreshToken.expires, now)

getAuthCodeCallback(r) ==
  /\ Awaiting(ctx[r], "checkGrantType", "getAuthCode")
  /\ LET c == ctx[r]
     IN  \/ \E err \in StorageErrs :
              Set(r, done(Failed(c, "getAuthCode", err),
                          error("server_error", NoStr, err), NoResponse))
         \/ Set(r, done(Answered(c, "getAuthCode", "ok"),
                        error("invalid_grant", "Invalid code", NoCause), NoResponse))
         \/ \E authCode \in TokenRecords(c.now) :
              LET a == [Answered(c, "getAuthCode", "ok") EXCEPT !.record = authCode]
                  cu == [a EXCEPT !.user = UserOf(authCode)]
              IN  IF issuedToAnother(authCode, c.client)
                  THEN Set(r, done(a, error("invalid_grant", "Invalid code", NoCause),
                                   NoResponse))
                  ELSE IF authCodeExpired(authCode, c.now)
                  THEN Set(r, done(a, error("invalid_grant", "Code has expired", NoCause),
                                   NoResponse))
                  ELSE IF Falsy(cu.user.id)
                  THEN Set(r, done(cu, error("server_error", NoStr,
                         [type |-> NoStr,
                          message |-> "No user/userId parameter returned from getauthCode"]),
                         NoResponse))
                  ELSE Set(r, done(cu, NoErr, NoResponse))

getUserCallback(r) ==
  /\ Awaiting(ctx[r], "checkGrantType", "getUser")
  /\ LET c == ctx[r]
     IN  \/ \E err \in StorageErrs :
              Set(r, done(Failed(c, "getUser", err),
                          error("server_error", NoStr, err), NoResponse))
         \/ \E user \in {NoUser, UserWithId, UserNoId} :
              IF ~user.present
              THEN Set(r, done(Answered(c, "getUser", "ok"),
                               error("invalid_grant", "User credentials are invalid",
                                     NoCause), NoResponse))
              ELSE Set(r, done([Answered(c, "getUser", "ok") EXCEPT !.user = user],
                               NoErr, NoResponse))

\* the refresh-token store of the storage collaborator.  In the scenario
\* "refresh" it is one store shared by the requests: it holds the token
\* "rt0" of client c1 until a revokeRefreshToken for it was acknowledged.
\* In the other scenarios its answers are not constrained.
StoredRefreshTokens(tok, now) ==
  IF scenario # "refresh" THEN TokenRecords(now)
  ELSE IF tok \in revoked THEN {}
  ELSE {[clientId |-> "c1", expires |-> Null, user |-> UserWithId, userId |-> NoStr]}
NotStored(tok) == scenario # "refresh" \/ tok \in revoked

getRefreshTokenCallback(r) ==
  /\ Awaiting(ctx[r], "checkGrantType", "getRefreshToken")
  /\ LET c == ctx[r]
     IN  \/ \E err \in StorageErrs :
              Set(r, done(Failed(c, "getRefreshToken", err),
                          error("server_error", NoStr, err), NoResponse))
         \/ /\ NotStored(c.req.payload.refresh_token)
            /\ Set(r, done(Answered(c, "getRefreshToken", "ok"),
                           error("invalid_grant", "Invalid refresh token", NoCause),
                           NoResponse))
         \/ \E refreshToken \in StoredRefreshTokens(c.req.payload.refresh_token, c.now) :
              LET a == [Answered(c, "getRefreshToken", "ok") EXCEPT !.record = refreshToken]
                  cu == [a EXCEPT !.user = UserOf(refreshToken)]
              IN  IF issuedToAnother(refreshToken, c.client)
                  THEN Set(r, done(a, error("invalid_grant", "Invalid refresh token",
                                            NoCause), NoResponse))
                  ELSE IF refreshTokenExpired(refreshToken, c.now)
                  THEN Set(r, done(a, error("invalid_grant", "Refresh token has expired",
                                            NoCause), NoResponse))
                  ELSE IF ~refreshToken.user.present /\ Falsy(refreshToken.userId)
                  THEN Set(r, done(a, error("server_error", NoStr,
                         [type |-> NoStr,
                          message |-> "No user/userId parameter returned from getRefreshToken"]),
                         NoResponse))
                  ELSE IF config.hasRevokeRefreshToken
                  THEN Set(r, Issue(cu, Lookup("revokeRefreshToken",
                                               c.req.payload.refresh_token, NoStr, NoStr)))
                  ELSE Set(r, done(cu, NoErr, NoResponse))

revokeRefreshTokenCallback(r) ==
  /\ Awaiting(ctx[r], "checkGrantType", "revokeRefreshToken")
  /\ LET c == ctx[r]
     IN  \/ \E err \in StorageErrs :
              Set(r, done(Failed(c, "revokeRefreshToken", err),
                          error("server_error", NoStr, err), NoResponse))
         \/ /\ ctx' = [ctx EXCEPT ![r] = done(Answered(c, "revokeRefreshToken", "ok"),
                                               NoErr, NoResponse)]
            /\ revoked' = revoked \cup {c.req.payload.refresh_token}
            /\ UNCHANGED <<config, clock, reqs, scenario>>

getUserFromClientCallback(r) ==
  /\ Awaiting(ctx[r], "checkGrantType", "getUserFromClient")
  /\ LET c == ctx[r]
     IN  \/ \E err \in StorageErrs :
              Set(r, done(Failed(c, "getUserFromClient", err),
                          error("server_error", NoStr, err), NoResponse))
         \/ \E user \in {NoUser, UserWithId, UserNoId} :
              IF ~user.present
              THEN Set(r, done(Answered(c, "getUserFromClient", "ok"),
                               error("invalid_grant", "Client credentials are invalid",
                                     NoCause), NoResponse))
              ELSE Set(r, done([Answered(c, "getUserFromClient", "ok") EXCEPT !.user = user],
                               NoErr, NoResponse))

\* an extended-grant error that drops the cause's own type
extendedGrantErrorFixedKind(err) == error("invalid_request", err.message, err)

\* error(err.type || 'server_error', err.description || err.message, err)
extendedGrantError(err) ==
  error(IF Falsy(err.type) THEN "server_error" ELSE err.type, err.message, err)

extendedGrantCallback(r) ==
  /\ Awaiting(ctx[r], "checkGrantType", "extendedGrant")
  /\ LET c == ctx[r]
     IN  \/ \E err \in StorageErrs :
              Set(r, done(Failed(c, "extendedGrant", err),
                          extendedGrantError(err), NoResponse))
         \/ \E supported \in BOOLEAN, user \in {NoUser, UserWithId, UserNoId} :
              LET a == [Answered(c, "extendedGrant", "ok") EXCEPT
                          !.ext = ExtAnswer(supported, user)]
              IN  IF ~supported
                  THEN Set(r, done(a, error("invalid_request",
                                            "Invalid grant_type parameter or parameter missing",
                                            NoCause), NoResponse))
                  ELSE IF ~user.present \/ user.id = NoStr
                  THEN Set(r, done(a, error("invalid_request", "Invalid request.", NoCause),
                                   NoResponse))
                  ELSE Set(r, done([a EXCEPT !.user = user], NoErr, NoResponse))

exposeUser(r) ==
  /\ AtStep(ctx[r], "exposeUser")
  /\ LET c == Begin(ctx[r])
     IN  Set(r, done([c EXCEPT !.appUser = c.user], NoErr, NoResponse))

\* grant.js 361-368, part_000 380-387
expiresIn(lifetime, clientId) ==
  IF lifetime # LNull
  THEN IF Index(lifetime, clientId) # LUndef
       THEN Index(lifetime, clientId)
       ELSE lifetime
  ELSE LUndef

buildResponse(c) ==
  [token_type |-> "bearer", access_token |-> c.accessToken,
   expires_in |-> expiresIn(config.accessTokenLifetime, c.client.clientId),
   refresh_token |-> IF TokTruthy(c.refreshToken) THEN c.refreshToken ELSE UndefTok]

sendResponse(r) ==
  /\ AtStep(ctx[r], "sendResponse")
  /\ LET c == Begin(ctx[r])
         s == [c EXCEPT !.sent = buildResponse(c), !.log = Append(@, Ev("send", NoStr))]
     IN  IF config.continueAfterResponse
         THEN Set(r, done(s, NoErr, NoResponse))
         ELSE Set(r, [s EXCEPT !.phase = "suspended"])

(***************************************************************************)
(* unnamed/part_000, lines 249-391: the pre-approved grant on GrantBase    *)
(***************************************************************************)
\* this.grantType = preApproved.grant_type || 'preApproved'
PreApprovedGrant(r) ==
  /\ ctx[r].phase = "idle"
  /\ \E pa \in PreApprovedIn(scenario) :
       Set(r, [GrantBase(ctx[r], clock) EXCEPT
                 !.kind = "preNew", !.preApproved = pa,
                 !.grantType = IF Falsy(pa.grant_type) THEN "preApproved" ELSE pa.grant_type,
                 !.pos = 1, !.phase = "ready"])

\* the same text in both variants (part_000 72-88 and 330-346)
extractPreApprovedCredentials(r) ==
  /\ AtStep(ctx[r], "extractPreApprovedCredentials")
  /\ LET c == Begin(ctx[r])
         cc == [c EXCEPT !.client = Client(c.preApproved.client_id,
                                           c.preApproved.client_secret)]
     IN  IF ~c.preApproved.user.present
         THEN Set(r, done(c, error("invalid_grant", "Pre-approved user is missing", NoCause),
                          NoResponse))
         ELSE IF Falsy(cc.client.clientId) \/ ~MatchesClientIdRegex(cc.client.clientId)
         THEN Set(r, done(cc, error("invalid_client",
                                    "Invalid or missing client_id parameter", NoCause),
                          NoResponse))
         ELSE IF Falsy(cc.client.clientSecret)
         THEN Set(r, done(cc, error("invalid_client", "Missing client_secret parameter",
                                    NoCause), NoResponse))
         ELSE Set(r, done(cc, NoErr, NoResponse))

\* checkGrantType of the pre-approved variants (part_000 127-139 and 354-366)
usePreApprovedGrant(r) ==
  /\ AtStep(ctx[r], "checkGrantType") /\ ctx[r].kind \in {"preOld", "preNew"}
  /\ LET c == Begin(ctx[r])
     IN  Set(r, done([c EXCEPT !.user = c.preApproved.user], NoErr, NoResponse))

returnPreApprovedResponse(r) ==
  /\ AtStep(ctx[r], "returnPreApprovedResponse") /\ ctx[r].kind = "preNew"
  /\ LET c == Begin(ctx[r])
     IN  Set(r, done(c, NoErr, buildResponse(c)))

(***************************************************************************)
(* unnamed/part_000, lines 1-247: the stand-alone pre-approved grant       *)
(***************************************************************************)
PreApprovedGrantOld(r) ==
  /\ ctx[r].phase = "idle"
  /\ \E pa \in PreApprovedIn(scenario) :
       LET c == [ctx[r] EXCEPT !.kind = "preOld", !.now = clock, !.preApproved = pa,
                               !.grantType = "preApproved"]
       IN  IF config.continueAfterResponse
           THEN Set(r, [c EXCEPT !.phase = "thrown",
                                 !.log = Append(@, Ev("throw", "PreApprovedGrant"))])
           ELSE Set(r, [c EXCEPT !.pos = 1, !.phase = "ready"])

checkClientOld(r) ==
  /\ AtStep(ctx[r], "checkClient") /\ ctx[r].kind = "preOld"
  /\ LET c == Begin(ctx[r])
     IN  Set(r, Issue(c, Lookup("getClient", c.client.clientSecret,
                                c.client.clientId, NoStr)))

getClientCallbackOld(r) ==
  /\ Awaiting(ctx[r], "checkClient", "getClient") /\ ctx[r].kind = "preOld"
  /\ LET c == ctx[r]
     IN  \/ \E err \in StorageErrs :
              Set(r, done(Failed(c, "getClient", err),
                          error("server_error", NoStr, err), NoResponse))
         \/ Set(r, done(Answered(c, "getClient", "ok"),
                        error("invalid_client", "Client credentials are invalid", NoCause),
                        NoResponse))
         \/ \E client \in {ClientRecord(c.client.clientId)} :
              Set(r, done([Answered(c, "getClient", "ok") EXCEPT !.gotClient = client],
                          NoErr, NoResponse))

\* part_000 170-174 and 216-220: no per-client override
computeExpiresOld(now, lifetime) ==
  IF lifetime # LNull THEN AddSeconds(now, lifetime) ELSE Null

saveAccessTokenOld(r) ==
  /\ AtStep(ctx[r], "saveAccessToken") /\ ctx[r].kind = "preOld"
  /\ LET c == Begin(ctx[r])
         accessToken == c.accessToken
         expires == computeExpiresOld(c.now, config.accessTokenLifetime)
     IN  IF IsReissue(accessToken, "accessToken")
         THEN Set(r, done([c EXCEPT !.accessToken = collapse(accessToken, "accessToken"),
                                    !.log = Append(@, Ev("reissue", "accessToken"))],
                          NoErr, NoResponse))
         ELSE Set(r, Issue(c, StorageCall("saveAccessToken", NoStr, accessToken,
                                          c.client.clientId, expires, c.user, c.grantType)))

saveAccessTokenCallbackOld(r) ==
  /\ Awaiting(ctx[r], "saveAccessToken", "saveAccessToken") /\ ctx[r].kind = "preOld"
  /\ LET c == ctx[r]
     IN  \/ \E err \in StorageErrs :
              Set(r, done(Failed(c, "saveAccessToken", err),
                          error("server_error", NoStr, err), NoResponse))
         \/ Set(r, done(Answered(c, "saveAccessToken", "ok"), NoErr, NoResponse))

saveRefreshTokenOld(r) ==
  /\ AtStep(ctx[r], "saveRefreshToken") /\ ctx[r].kind = "preOld"
  /\ LET c == Begin(ctx[r])
         refreshToken == c.refreshToken
         expires == computeExpiresOld(c.now, config.refreshTokenLifetime)
     IN  IF ~TokTruthy(refreshToken)
         THEN Set(r, done(c, NoErr, NoResponse))
         ELSE IF IsReissue(refreshToken, "refreshToken")
         THEN Set(r, done([c EXCEPT !.refreshToken = collapse(refreshToken, "refreshToken"),
                                    !.log = Append(@, Ev("reissue", "refreshToken"))],
                          NoErr, NoResponse))
         ELSE Set(r, Issue(c, StorageCall("saveRefreshToken", NoStr, refreshToken,
                                          c.client.clientId, expires, c.user, NoStr)))

saveRefreshTokenCallbackOld(r) ==
  /\ Awaiting(ctx[r], "saveRefreshToken", "saveRefreshToken") /\ ctx[r].kind = "preOld"
  /\ LET c == ctx[r]
     IN  \/ \E err \in StorageErrs :
              Set(r, done(Failed(c, "saveRefreshToken", err),
                          error("server_error", NoStr, err), NoResponse))
         \/ Set(r, done(Answered(c, "saveRefreshToken", "ok"), NoErr, NoResponse))

\* part_000 241-243
expiresInOld(lifetime) == IF lifetime # LNull THEN lifetime ELSE LUndef

returnPreApprovedResponseOld(r) ==
  /\ AtStep(ctx[r], "returnPreApprovedResponse") /\ ctx[r].kind = "preOld"
  /\ LET c == Begin(ctx[r])
     IN  Set(r, done(c, NoErr,
              [token_type |-> "bearer", access_token |-> c.accessToken,
               expires_in |-> expiresInOld(config.accessTokenLifetime),
               refresh_token |-> IF TokTruthy(c.refreshToken) THEN c.refreshToken
                                 ELSE UndefTok]))

Next ==
  \/ \E r \in reqs : Grant(r)
  \/ \E r \in reqs : extractCredentials(r)
  \/ \E r \in reqs : checkClient(r)
  \/ \E r \in reqs : getClientCallback(r)
  \/ \E r \in reqs : generateAccessToken(r)
  \/ \E r \in reqs : generateAccessTokenCallback(r)
  \/ \E r \in reqs : saveAccessToken(r)
  \/ \E r \in reqs : saveAccessTokenCallback(r)
  \/ \E r \in reqs : generateRefreshToken(r)
  \/ \E r \in reqs : generateRefreshTokenCallback(r)
  \/ \E r \in reqs : saveRefreshToken(r)
  \/ \E r \in reqs : saveRefreshTokenCallback(r)
  \/ \E r \in reqs : exposeClient(r)
  \/ \E r \in reqs : checkGrantTypeAllowed(r)
  \/ \E r \in reqs : grantTypeAllowedCallback(r)
  \/ \E r \in reqs : checkGrantType(r)
  \/ \E r \in reqs : getAuthCodeCallback(r)
  \/ \E r \in reqs : getUserCallback(r)
  \/ \E r \in reqs : getRefreshTokenCallback(r)
  \/ \E r \in reqs : revokeRefreshTokenCallback(r)
  \/ \E r \in reqs : getUserFromClientCallback(r)
  \/ \E r \in reqs : extendedGrantCallback(r)
  \/ \E r \in reqs : exposeUser(r)
  \/ \E r \in reqs : sendResponse(r)
  \/ \E r \in reqs : PreApprovedGrant(r)
  \/ \E r \in reqs : extractPreApprovedCredentials(r)
  \/ \E r \in reqs : usePreApprovedGrant(r)
  \/ \E r \in reqs : returnPreApprovedResponse(r)
  \/ \E r \in reqs : PreApprovedGrantOld(r)
  \/ \E r \in reqs : checkClientOld(r)
  \/ \E r \in reqs : getClientCallbackOld(r)
  \/ \E r \in reqs : saveAccessTokenOld(r)
  \/ \E r \in reqs : saveAccessTokenCallbackOld(r)
  \/ \E r \in reqs : saveRefreshTokenOld(r)
  \/ \E r \in reqs : saveRefreshTokenCallbackOld(r)
  \/ \E r \in reqs : returnPreApprovedResponseOld(r)

Spec == Init /\ [][Next]_vars

(***************************************************************************)
(* Properties                                                              *)
(***************************************************************************)
Contexts == {ctx[r] : r \in reqs}
Events(c, e) == SelectSeq(c.log, LAMBDA ev : ev.e = e)
Count(log, e) == Len(SelectSeq(log, LAMBDA ev : ev.e = e))
Happened(c, e, x) == \E i \in 1..Len(c.log) : c.log[i] = Ev(e, x)
\* the position in the log of the first event (e, x); 0 when there is none
IndexOf(c, e, x) ==
  IF Happened(c, e, x)
  THEN CHOOSE i \in 1..Len(c.log) :
         c.log[i] = Ev(e, x) /\ \A j \in 1..(i - 1) : c.log[j] # Ev(e, x)
  ELSE 0
CallsOf(c, op) == SelectSeq(c.calls, LAMBDA call : call.op = op)
\* the success response of a run: sent over the transport by the full
\* pipeline, handed to the completion callback by the pre-approved ones
Response(c) == IF c.kind = "grant" THEN c.sent ELSE c.result.response
Succeeded(c) == Response(c) # NoResponse

\* ---- C1
StartedInListOrder(c) ==
  LET st == Events(c, "start")
  IN  /\ Len(st) <= Len(fns(c.kind))
      /\ \A i \in 1..Len(st) : st[i].x = fns(c.kind)[i]
OneAtATime(c) ==
  \A i \in 1..Len(c.log) :
    c.log[i].e = "start" =>
      Count(SubSeq(c.log, 1, i - 1), "start") = Count(SubSeq(c.log, 1, i - 1), "done")
ErrorEndsRun(c) ==
  c.cbErr # NoErr =>
    /\ c.phase = "finished"
    /\ c.result = [called |-> 1, err |-> c.cbErr, response |-> NoResponse]
    /\ Len(Events(c, "start")) = c.pos
    /\ c.log[Len(c.log)].e = "next"
    /\ c.log[Len(c.log) - 1] = Ev("done", fns(c.kind)[c.pos])

\* C1: in every pipeline (full request, both pre-approved variants) the
\* steps start in list order, each only after the previous one called back,
\* and when step k calls back with an error the completion callback gets
\* exactly that error, once, and no step after k has been started.
C1_StepsInOrderErrorStops ==
  \A c \in Contexts : StartedInListOrder(c) /\ OneAtATime(c) /\ ErrorEndsRun(c)

\* a pre-approved run (stand-alone variant) whose fifth step, the access
\* token save, called back with an error
C1_Witness ==
  \E c \in Contexts :
    c.kind = "preOld" /\ c.pos = 5 /\ c.cbErr.kind = "server_error" /\ c.phase = "finished"

\* ---- C2
SettledBefore(c, type, op, i) ==
  \/ \E j \in 1..(i - 1) : c.log[j] = Ev("ok", op)
  \/ \E j \in 1..(i - 1) : c.log[j] = Ev("reissue", type)

\* C2: in the full request pipeline the response is sent only after the
\* access token, and the refresh token when one was generated, has been
\* acknowledged without error by its storage save or collapsed from a
\* reissue marker.
C2_ResponseAfterBothTokensSettled ==
  \A c \in Contexts :
    c.kind = "grant" =>
      \A i \in 1..Len(c.log) :
        c.log[i].e = "send" =>
          /\ SettledBefore(c, "accessToken", "saveAccessToken", i)
          /\ c.genRefresh # UndefTok =>
                SettledBefore(c, "refreshToken", "saveRefreshToken", i)

\* a response sent after both tokens were saved by storage
C2_Witness ==
  \E c \in Contexts :
    /\ c.kind = "grant" /\ c.sent # NoResponse
    /\ Happened(c, "ok", "saveAccessToken") /\ Happened(c, "ok", "saveRefreshToken")

\* ---- C3
\* the token of one kind was either saved by exactly one storage call that
\* carried the generated string, or generated as a marker and never saved
SavedOnceOrReissued(c, gen, cur, op, field) ==
  \/ /\ gen.t = "string"
     /\ Len(CallsOf(c, op)) = 1 /\ CallsOf(c, op)[1].token = gen
     /\ cur = gen
  \/ /\ gen.t = "object"
     /\ Len(CallsOf(c, op)) = 0
     /\ cur = Str(gen[field])

\* C3: for every grant type a run that ends in a success response saved the
\* access token exactly once or treated it as reissued (not both, not
\* neither), and likewise the refresh token when 'refresh_token' is among
\* the configured grants.
C3_ExactlyOneSavePerToken ==
  \A c \in Contexts :
    Succeeded(c) =>
      /\ SavedOnceOrReissued(c, c.genAccess, c.accessToken, "saveAccessToken", "accessToken")
      /\ "refresh_token" \in config.grants =>
            SavedOnceOrReissued(c, c.genRefresh, c.refreshToken, "saveRefreshToken",
                                "refreshToken")

\* a successful refresh_token grant with a saved access token and a
\* reissued refresh token
C3_Witness ==
  \E c \in Contexts :
    /\ Succeeded(c) /\ c.grantType = "refresh_token"
    /\ c.genAccess.t = "string" /\ c.genRefresh.t = "object"

\* ---- C4
SaveCallHasNoExpiry(c, op) ==
  Len(CallsOf(c, op)) = 1 /\ CallsOf(c, op)[1].expires = Null

\* C4: with a null access-token lifetime, a request whose earlier steps all
\* succeeded calls saveAccessToken with expires = null and its response has
\* no expires_in; with a null refresh-token lifetime saveRefreshToken gets
\* expires = null.
C4_NullLifetimeSavesWithoutExpiry ==
  \A c \in Contexts :
    /\ (config.accessTokenLifetime = LNull /\ c.genAccess.t = "string"
        /\ Happened(c, "start", "saveAccessToken"))
         => SaveCallHasNoExpiry(c, "saveAccessToken")
    /\ (config.accessTokenLifetime = LNull /\ Succeeded(c))
         => Response(c).expires_in = LUndef
    /\ (config.refreshTokenLifetime = LNull /\ c.genRefresh.t = "string"
        /\ Happened(c, "start", "saveRefreshToken"))
         => SaveCallHasNoExpiry(c, "saveRefreshToken")

\* ---- C5
\* the lifetime the claim resolves: the client's entry of a mapping,
\* otherwise the configured value, which is then to be a number of seconds
ClaimedLifetime(l, cid) ==
  IF l.tag = "object" /\ l.map[cid] # Undefined THEN LNum(l.map[cid]) ELSE l
ExpiresFromLifetime(c, op, l) ==
  \A i \in 1..Len(c.calls) :
    c.calls[i].op = op =>
      /\ ClaimedLifetime(l, c.client.clientId).tag = "number"
      /\ c.calls[i].expires = c.now + ClaimedLifetime(l, c.client.clientId).n

\* C5: for both token kinds and for expires_in, the resolved lifetime is the
\* current client's entry when the configuration is a mapping that has one,
\* otherwise the scalar number of seconds; expires passed to storage is now
\* plus the resolved lifetime and expires_in equals the resolved lifetime.
C5_LifetimeResolution ==
  \A c \in Contexts :
    UsesGrantBase(c) =>
      /\ config.accessTokenLifetime # LNull =>
           ExpiresFromLifetime(c, "saveAccessToken", config.accessTokenLifetime)
      /\ config.refreshTokenLifetime # LNull =>
           ExpiresFromLifetime(c, "saveRefreshToken", config.refreshTokenLifetime)
      /\ (config.accessTokenLifetime # LNull /\ Succeeded(c)) =>
           /\ Response(c).expires_in.tag = "number"
           /\ Response(c).expires_in =
                ClaimedLifetime(config.accessTokenLifetime, c.client.clientId)

\* ---- C6
ReissueCollapsed(c, gen, cur, op, field, inResponse) ==
  (gen.t = "object" /\ Happened(c, "done", op)) =>
    /\ CallsOf(c, op) = <<>>
    /\ cur = Str(gen[field])
    /\ Succeeded(c) => inResponse = Str(gen[field])

\* C6: when the generated access (refresh) token is a reissue marker
\* {accessToken: X} ({refreshToken: X}), the save step makes no storage
\* save call, the context's token becomes the plain string X, and the
\* response carries X as access_token (refresh_token).
C6_ReissueMarkerBypassesSave ==
  \A c \in Contexts :
    /\ ReissueCollapsed(c, c.genAccess, c.accessToken, "saveAccessToken", "accessToken",
                        Response(c).access_token)
    /\ ReissueCollapsed(c, c.genRefresh, c.refreshToken, "saveRefreshToken", "refreshToken",
                        Response(c).refresh_token)

\* a pre-approved run that answered with two reissued tokens
C6_Witness ==
  \E c \in Contexts :
    /\ c.kind = "preNew" /\ Succeeded(c)
    /\ c.genAccess = AccessMarker("at0") /\ c.genRefresh = RefreshMarker("rt0")
    /\ Response(c).access_token = Str("at0") /\ Response(c).refresh_token = Str("rt0")

\* ---- C7
FormPost(req) ==
  req.method = "post" /\ req.mime = "application/x-www-form-urlencoded"
GrantTypeGiven(req) ==
  req.payload.present /\ MatchesGrantTypeRegex(req.payload.grant_type)
\* basic-auth credentials take precedence over the payload's
PresentedId(req) == IF req.basic.present THEN req.basic.name ELSE req.payload.client_id
PresentedSecret(req) ==
  IF req.basic.present THEN req.basic.pass ELSE req.payload.client_secret
ClientGiven(req) ==
  MatchesClientIdRegex(PresentedId(req)) /\ PresentedSecret(req) # NoStr
EndedWith(c, kind) ==
  c.phase = "finished" /\ c.result.called = 1 /\ c.result.err.kind = kind

\* C7: a request that fails credential extraction ends with invalid_request
\* (wrong method or content type, missing or non-matching grant_type) or
\* with invalid_client (missing or non-matching client id, missing secret)
\* and makes no storage call; a request without grant_type ends with
\* invalid_request before getClient is called.
C7_ExtractionFailureMakesNoStorageCall ==
  \A c \in Contexts :
    (c.kind = "grant" /\ Happened(c, "done", "extractCredentials")) =>
      /\ (~FormPost(c.req) \/ ~GrantTypeGiven(c.req)) =>
           EndedWith(c, "invalid_request") /\ c.calls = <<>>
      /\ (FormPost(c.req) /\ GrantTypeGiven(c.req) /\ ~ClientGiven(c.req)) =>
           EndedWith(c, "invalid_client") /\ c.calls = <<>>

\* a form POST with client credentials and no grant_type field, refused
C7_Witness ==
  \E c \in Contexts :
    /\ c.kind = "grant" /\ FormPost(c.req) /\ ClientGiven(c.req)
    /\ c.req.payload.present /\ c.req.payload.grant_type = NoStr
    /\ EndedWith(c, "invalid_request") /\ c.calls = <<>>

\* ---- C8
ExpiredRefreshTokenReturned(c) ==
  /\ c.kind = "grant" /\ c.grantType = "refresh_token"
  /\ Happened(c, "ok", "getRefreshToken") /\ c.record # NoRecord
  /\ c.record.clientId = c.client.clientId
  /\ c.record.expires # Null /\ c.record.expires < c.now

\* C8: in the refresh_token grant, a token record of the client whose
\* non-null expires is earlier than now ends the request with invalid_grant
\* 'Refresh token has expired', and revokeRefreshToken, saveAccessToken and
\* saveRefreshToken are not called.
C8_ExpiredRefreshTokenRejected ==
  \A c \in Contexts :
    ExpiredRefreshTokenReturned(c) =>
      /\ EndedWith(c, "invalid_grant")
      /\ c.result.err.message = "Refresh token has expired"
      /\ \A i \in 1..Len(c.calls) :
           c.calls[i].op \notin {"revokeRefreshToken", "saveAccessToken", "saveRefreshToken"}

\* an expired record with a user, returned by a storage that can revoke
C8_Witness ==
  \E c \in Contexts :
    /\ ExpiredRefreshTokenReturned(c) /\ config.hasRevokeRefreshToken
    /\ c.record.expires = c.now - 1 /\ c.record.user = UserWithId

\* ---- C9
\* C9: whenever token generation or persistence has started, the context's
\* user has a defined id, for every grant type and every value storage may
\* return; a record yielding no id ends the request with server_error.
C9_UserIdDefinedBeforeTokens ==
  \A c \in Contexts :
    Happened(c, "start", "generateAccessToken") =>
      c.user.present /\ ~Falsy(c.user.id)

\* ---- C10
\* C10 as stated: whenever any storage operation reports an error the
\* request ends with server_error wrapping the cause, never another kind.
C10_Original ==
  \A c \in Contexts :
    c.storageErr # NoCause =>
      EndedWith(c, "server_error") /\ c.result.err.cause = c.storageErr

\* C10 amended: an error of any storage operation other than extendedGrant
\* ends the request with server_error wrapping the cause; an error of
\* extendedGrant ends it with an error wrapping the cause whose kind is the
\* cause's own type when it has one and server_error otherwise.
C10_StorageErrorKinds ==
  \A c \in Contexts :
    c.storageErr # NoCause =>
      /\ c.result.err.cause = c.storageErr
      /\ IF Happened(c, "fail", "extendedGrant") /\ c.storageErr.type # NoStr
         THEN EndedWith(c, c.storageErr.type)
         ELSE EndedWith(c, "server_error")

\* a typed error reported by revokeRefreshToken, surfaced as server_error
C10_Witness ==
  \E c \in Contexts :
    /\ Happened(c, "fail", "revokeRefreshToken") /\ c.storageErr.type = "custom_kind"
    /\ EndedWith(c, "server_error")

\* ---- C11
\* C11: once the client-validation step has succeeded, the client record
\* that getClient returned is the context's clientModel, it is the value
\* exposeClient publishes as req.app.oauth.client, and the context's
\* client.clientId and client.clientSecret are still the presented ones.
C11_ClientRecordKeptAndExposed ==
  \A c \in Contexts :
    (c.kind = "grant" /\ c.gotClient # NoClientModel) =>
      /\ c.clientModel = c.gotClient
      /\ Happened(c, "done", "exposeClient") => c.appOauthClient = c.gotClient
      /\ c.client = Client(PresentedId(c.req), PresentedSecret(c.req))


\* ---- C12
GrantLookups ==
  {"getAuthCode", "getUser", "getRefreshToken", "getUserFromClient", "extendedGrant"}
NoGrantLookup(c) == \A i \in 1..Len(c.calls) : c.calls[i].op \notin GrantLookups
NoTokenGenerated(c) ==
  /\ c.genAccess = UndefTok /\ c.genRefresh = UndefTok
  /\ ~Happened(c, "call", "accessToken") /\ ~Happened(c, "call", "refreshToken")

\* C12: the full pipeline calls grantTypeAllowed exactly once, after
\* getClient returned a client and before any grant-specific lookup
\* (getAuthCode, getUser, getRefreshToken, getUserFromClient, extendedGrant);
\* a not-allowed answer ends the request with invalid_client, no grant
\* lookup and no token generated; the pre-approved pipelines never call it.
C12_GrantTypeAllowedOnceBeforeLookup ==
  \A c \in Contexts :
    /\ c.kind = "grant" =>
         /\ Len(CallsOf(c, "grantTypeAllowed")) <= 1
         /\ Happened(c, "done", "checkGrantTypeAllowed") =>
              Len(CallsOf(c, "grantTypeAllowed")) = 1
         /\ Happened(c, "call", "grantTypeAllowed") =>
              /\ c.gotClient # NoClientModel
              /\ IndexOf(c, "ok", "getClient") > 0
              /\ IndexOf(c, "ok", "getClient") < IndexOf(c, "call", "grantTypeAllowed")
         /\ \A i \in 1..Len(c.calls) :
              c.calls[i].op \in GrantLookups =>
                /\ \E j \in 1..(i - 1) : c.calls[j].op = "grantTypeAllowed"
                /\ c.allowed = "true"
         /\ c.allowed = "false" =>
              /\ EndedWith(c, "invalid_client")
              /\ NoGrantLookup(c) /\ NoTokenGenerated(c)
    /\ c.kind \in {"preOld", "preNew"} => Len(CallsOf(c, "grantTypeAllowed")) = 0

\* a request whose client exists but may not use the grant type, refused
\* after two storage calls
C12_Witness ==
  \E c \in Contexts :
    /\ c.kind = "grant" /\ c.allowed = "false" /\ EndedWith(c, "invalid_client")
    /\ Len(c.calls) = 2 /\ c.calls[2].op = "grantTypeAllowed"

\* a pre-approved run that reached its response without asking
C12_WitnessPreApproved ==
  \E c \in Contexts :
    c.kind = "preNew" /\ Succeeded(c) /\ Len(CallsOf(c, "grantTypeAllowed")) = 0


\* ---- C13
\* C13: a pre-approved grant constructed under a configuration whose
\* continueAfterResponse flag is set has failed at construction: the
\* constructor threw, no step was started, no storage call was made and no
\* token was generated.
C13_ConstructionRejectsContinueAfterResponse ==
  \A c \in Contexts :
    (c.kind \in {"preOld", "preNew"} /\ config.continueAfterResponse) =>
      /\ c.phase = "thrown"
      /\ c.log = <<Ev("throw", "PreApprovedGrant")>>
      /\ c.calls = <<>> /\ NoTokenGenerated(c)


\* ---- C14
(***************************************************************************)
(* Two requests under one configuration: request 1 enters the full         *)
(* pipeline with a password grant, request 2 one of the pre-approved       *)
(* variants.  Storage and the token generator answer each of them freely.  *)
(***************************************************************************)
ConfigsPair ==
  [grants : {BuiltinGrants},
   accessTokenLifetime : LifetimeConfigs,
   refreshTokenLifetime : LifetimeConfigs,
   continueAfterResponse : {FALSE},
   hasRevokeRefreshToken : {FALSE},
   hasExtendedGrant : {FALSE}]

InitPair ==
  /\ config \in ConfigsPair
  /\ clock = StartTime
  /\ reqs = {1, 2}
  /\ ctx = [r \in reqs |-> IdleContext]
  /\ scenario = "pair"
  /\ revoked = {}

NextPair ==
  \/ Grant(1)
  \/ PreApprovedGrant(2)
  \/ PreApprovedGrantOld(2)
  \/ \E r \in reqs : extractCredentials(r)
  \/ \E r \in reqs : checkClient(r)
  \/ \E r \in reqs : getClientCallback(r)
  \/ \E r \in reqs : exposeClient(r)
  \/ \E r \in reqs : checkGrantTypeAllowed(r)
  \/ \E r \in reqs : grantTypeAllowedCallback(r)
  \/ \E r \in reqs : checkGrantType(r)
  \/ \E r \in reqs : getUserCallback(r)
  \/ \E r \in reqs : exposeUser(r)
  \/ \E r \in reqs : generateAccessToken(r)
  \/ \E r \in reqs : generateAccessTokenCallback(r)
  \/ \E r \in reqs : saveAccessToken(r)
  \/ \E r \in reqs : saveAccessTokenCallback(r)
  \/ \E r \in reqs : generateRefreshToken(r)
  \/ \E r \in reqs : generateRefreshTokenCallback(r)
  \/ \E r \in reqs : saveRefreshToken(r)
  \/ \E r \in reqs : saveRefreshTokenCallback(r)
  \/ \E r \in reqs : sendResponse(r)
  \/ \E r \in reqs : extractPreApprovedCredentials(r)
  \/ \E r \in reqs : usePreApprovedGrant(r)
  \/ \E r \in reqs : returnPreApprovedResponse(r)
  \/ \E r \in reqs : checkClientOld(r)
  \/ \E r \in reqs : getClientCallbackOld(r)
  \/ \E r \in reqs : saveAccessTokenOld(r)
  \/ \E r \in reqs : saveAccessTokenCallbackOld(r)
  \/ \E r \in reqs : saveRefreshTokenOld(r)
  \/ \E r \in reqs : saveRefreshTokenCallbackOld(r)
  \/ \E r \in reqs : returnPreApprovedResponseOld(r)

SpecPair == InitPair /\ [][NextPair]_vars

\* the run is over: completed, waiting after its response, or crashed
Ended(c) == c.phase \in {"finished", "suspended", "thrown"}
\* the token, clientId, expires and user arguments of the save calls made
SaveCalls(c) ==
  LET saves == SelectSeq(c.calls,
                         LAMBDA call : call.op \in {"saveAccessToken", "saveRefreshToken"})
  IN  [i \in 1..Len(saves) |->
         [op |-> saves[i].op, token |-> saves[i].token, clientId |-> saves[i].clientId,
          expires |-> saves[i].expires, user |-> saves[i].user]]
\* the two runs were given the same client, user, now and generated tokens,
\* and neither storage nor the generator reported an error to either
SameLifecycleInputs(a, b) ==
  /\ a.client.clientId = b.client.clientId /\ a.user = b.user /\ a.now = b.now
  /\ a.genAccess = b.genAccess /\ a.genRefresh = b.genRefresh
  /\ a.genAccess # UndefTok /\ a.genRefresh # UndefTok
  /\ a.cbErr = NoErr /\ b.cbErr = NoErr
SameLifecycle(a, b) ==
  (Ended(a) /\ Ended(b) /\ SameLifecycleInputs(a, b)) =>
    SaveCalls(a) = SaveCalls(b) /\ Response(a) = Response(b)

\* C14: for the same configuration (per-client lifetime mappings included),
\* client, user, now and generated tokens, a pre-approved run and a run of
\* the full pipeline make the same saveAccessToken / saveRefreshToken calls
\* (token, clientId, expires, user) and produce the same response fields.
C14_PreApprovedSameLifecycle ==
  \A a, b \in Contexts :
    (a.kind = "grant" /\ b.kind \in {"preOld", "preNew"}) => SameLifecycle(a, b)

\* the same statement for the GrantBase-based variant alone
PreNewSameLifecycle ==
  \A a, b \in Contexts :
    (a.kind = "grant" /\ b.kind = "preNew") => SameLifecycle(a, b)


\* ---- C15
(***************************************************************************)
(* Progress: the event loop runs every step that is ready, and every       *)
(* storage call and token generation in flight eventually calls back.      *)
(* With one request every enabled action is a step or a callback of that   *)
(* request, so weak fairness of Next states exactly this.                  *)
(***************************************************************************)
SpecLive == Init /\ [][Next]_vars /\ WF_vars(Next)

\* the request has entered a pipeline: the runner was started on it
Entered(c) == c.pos > 0

\* C15 as stated: every request that enters a pipeline eventually has its
\* completion callback invoked exactly once.
C15_Original == Entered(ctx[1]) ~> (ctx[1].result.called = 1)

\* how a run that entered a pipeline can end
CompletedRun(c) ==
  /\ c.phase = "finished" /\ c.result.called = 1
  /\ c.result.err = c.cbErr
  /\ c.cbErr = NoErr =>
       /\ c.pos = Len(fns(c.kind))
       /\ c.kind = "grant" => config.continueAfterResponse
AnsweredWithoutCompletion(c) ==
  /\ c.phase = "suspended" /\ c.result.called = 0
  /\ c.kind = "grant" /\ ~config.continueAfterResponse
  /\ c.sent # NoResponse /\ c.pos = Len(fns(c.kind))
CrashedInSaveStep(c) ==
  /\ c.phase = "thrown" /\ c.result.called = 0
  /\ UsesGrantBase(c)
  /\ fns(c.kind)[c.pos] \in {"saveAccessToken", "saveRefreshToken"}
  /\ LNull \in {config.accessTokenLifetime, config.refreshTokenLifetime}

\* C15 amended: the completion callback is never invoked twice, and every
\* request that enters a pipeline eventually ends in one of three ways: the
\* completion callback was invoked once, with the failing step's error or,
\* after the final step, with none (in the full pipeline only when
\* continueAfterResponse is set); or the full pipeline sent its response
\* with continueAfterResponse unset and never invokes the callback; or a
\* GrantBase save step threw on a null lifetime and the callback is never
\* invoked.
C15_EveryRunEnds ==
  /\ [](\A c \in Contexts : c.result.called <= 1)
  /\ Entered(ctx[1]) ~>
       (CompletedRun(ctx[1]) \/ AnsweredWithoutCompletion(ctx[1])
          \/ CrashedInSaveStep(ctx[1]))

\* a full-pipeline run that completed without error after sendResponse
C15_Witness ==
  \E c \in Contexts :
    /\ c.kind = "grant" /\ CompletedRun(c) /\ c.cbErr = NoErr
    /\ c.sent # NoResponse /\ config.continueAfterResponse

\* a full-pipeline run that answered and will never complete
C15_WitnessSuspended == \E c \in Contexts : AnsweredWithoutCompletion(c)


\* ---- C16
(***************************************************************************)
(* One request of the full pipeline while the wall clock advances: time    *)
(* passes before the request arrives and while its storage calls and       *)
(* token generations are in flight.                                        *)
(***************************************************************************)
Tick ==
  /\ clock < StartTime + MaxTicks
  /\ clock' = clock + 1
  /\ UNCHANGED <<config, reqs, ctx, scenario, revoked>>

ConfigsClock ==
  [grants : {BuiltinGrants},
   accessTokenLifetime : LifetimeConfigs,
   refreshTokenLifetime : LifetimeConfigs,
   continueAfterResponse : {FALSE},
   hasRevokeRefreshToken : BOOLEAN,
   hasExtendedGrant : {FALSE}]

InitClock ==
  /\ config \in ConfigsClock
  /\ clock = StartTime
  /\ reqs = {1}
  /\ ctx = [r \in reqs |-> IdleContext]
  /\ scenario = "clock"
  /\ revoked = {}

NextClock ==
  \/ Tick
  \/ \E r \in reqs : Grant(r)
  \/ \E r \in reqs : extractCredentials(r)
  \/ \E r \in reqs : checkClient(r)
  \/ \E r \in reqs : getClientCallback(r)
  \/ \E r \in reqs : exposeClient(r)
  \/ \E r \in reqs : checkGrantTypeAllowed(r)
  \/ \E r \in reqs : grantTypeAllowedCallback(r)
  \/ \E r \in reqs : checkGrantType(r)
  \/ \E r \in reqs : getAuthCodeCallback(r)
  \/ \E r \in reqs : getUserCallback(r)
  \/ \E r \in reqs : getRefreshTokenCallback(r)
  \/ \E r \in reqs : revokeRefreshTokenCallback(r)
  \/ \E r \in reqs : exposeUser(r)
  \/ \E r \in reqs : generateAccessToken(r)
  \/ \E r \in reqs : generateAccessTokenCallback(r)
  \/ \E r \in reqs : saveAccessToken(r)
  \/ \E r \in reqs : saveAccessTokenCallback(r)
  \/ \E r \in reqs : generateRefreshToken(r)
  \/ \E r \in reqs : generateRefreshTokenCallback(r)
  \/ \E r \in reqs : saveRefreshToken(r)
  \/ \E r \in reqs : saveRefreshTokenCallback(r)
  \/ \E r \in reqs : sendResponse(r)

SpecClock == InitClock /\ [][NextClock]_vars

\* the lifetime a save step resolves for the run's client
LifetimeFor(c, op) ==
  resolveLifetime(IF op = "saveAccessToken" THEN config.accessTokenLifetime
                  ELSE config.refreshTokenLifetime, c.client.clientId)
SaveOps == {"saveAccessToken", "saveRefreshToken"}
\* every save call carries an expiry counted from the context's now
ExpiresCountedFromNow(c) ==
  \A i \in 1..Len(c.calls) :
    c.calls[i].op \in SaveOps =>
      c.calls[i].expires = computeExpires(c.now, LifetimeFor(c, c.calls[i].op))
EqualLifetimesEqualExpires(c) ==
  \A i, j \in 1..Len(c.calls) :
    (/\ c.calls[i].op = "saveAccessToken" /\ c.calls[j].op = "saveRefreshToken"
     /\ LifetimeFor(c, "saveAccessToken") = LifetimeFor(c, "saveRefreshToken"))
      => c.calls[i].expires = c.calls[j].expires
\* a record of the run's client with a timestamp was returned by op
TimedRecordReturned(c, op) ==
  /\ Happened(c, "ok", op) /\ c.record # NoRecord
  /\ c.record.clientId = c.client.clientId /\ c.record.expires # Null
RejectedAsExpired(c, message) ==
  EndedWith(c, "invalid_grant") /\ c.result.err.message = message
ExpiryJudgedAgainstNow(c) ==
  /\ TimedRecordReturned(c, "getAuthCode") =>
       (RejectedAsExpired(c, "Code has expired") <=> c.record.expires < c.now)
  /\ TimedRecordReturned(c, "getRefreshToken") =>
       (RejectedAsExpired(c, "Refresh token has expired") <=> c.record.expires < c.now)
\* a step of the model never changes the now of a request once created,
\* and creation takes it from the wall clock
NowFixed ==
  \A r \in reqs :
    IF ctx[r].phase = "idle"
    THEN ctx'[r].phase # "idle" => ctx'[r].now = clock
    ELSE ctx'[r].now = ctx[r].now

\* C16: the context's now is set when the context is created and never
\* changes afterwards; the auth-code and refresh-token expiry checks and the
\* expires handed to saveAccessToken and saveRefreshToken are all counted
\* from that now, so with equal access and refresh lifetimes both saved
\* expires are equal however far the wall clock has moved between steps.
C16_OneNowPerRequest ==
  /\ [][NowFixed]_vars
  /\ [](\A c \in Contexts :
          c.kind = "grant" =>
            /\ ExpiresCountedFromNow(c) /\ EqualLifetimesEqualExpires(c)
            /\ ExpiryJudgedAgainstNow(c))

\* both tokens saved with the same expiry while the wall clock is ahead of
\* the request's now, after a code that the wall clock has overtaken was
\* accepted
C16_Witness ==
  \E c \in Contexts :
    /\ c.kind = "grant" /\ c.grantType = "authorization_code"
    /\ clock = c.now + MaxTicks /\ c.record.expires = c.now + 1
    /\ Len(CallsOf(c, "saveAccessToken")) = 1 /\ Len(CallsOf(c, "saveRefreshToken")) = 1
    /\ CallsOf(c, "saveAccessToken")[1].expires = CallsOf(c, "saveRefreshToken")[1].expires
    /\ CallsOf(c, "saveAccessToken")[1].expires = c.now + ScalarLifetime


\* ---- C17
\* C17: in the full pipeline, a run whose completion callback received an
\* error never sent the transport response, and once the response was sent
\* no step reports an error and the completion callback receives none.
C17_NoPartialResponse ==
  \A c \in Contexts :
    c.kind = "grant" =>
      /\ (c.result.called > 0 /\ c.result.err # NoErr) =>
           c.sent = NoResponse /\ Count(c.log, "send") = 0
      /\ c.sent # NoResponse =>
           /\ c.cbErr = NoErr /\ c.result.err = NoErr
           /\ Count(c.log, "send") = 1
           /\ c.log[Len(c.log)].e \in {"send", "done", "next"}
           /\ c.pos = Len(fns(c.kind))

\* a run that failed at its last step before the response, saving the
\* refresh token, after the access token had been saved: nothing was sent
C17_Witness ==
  \E c \in Contexts :
    /\ c.kind = "grant" /\ EndedWith(c, "server_error")
    /\ Happened(c, "ok", "saveAccessToken") /\ Happened(c, "fail", "saveRefreshToken")
    /\ c.sent = NoResponse


\* ---- C18
(***************************************************************************)
(* Two refresh_token requests presenting the same stored token "rt0" to a  *)
(* storage that exposes revokeRefreshToken, their steps and callbacks      *)
(* interleaved in any order.                                               *)
(***************************************************************************)
ConfigsRefresh ==
  [grants : {BuiltinGrants},
   accessTokenLifetime : {LNum(ScalarLifetime)},
   refreshTokenLifetime : {LNum(ScalarLifetime), LNull},
   continueAfterResponse : BOOLEAN,
   hasRevokeRefreshToken : {TRUE},
   hasExtendedGrant : {FALSE}]

InitRefresh ==
  /\ config \in ConfigsRefresh
  /\ clock = StartTime
  /\ reqs = {1, 2}
  /\ ctx = [r \in reqs |-> IdleContext]
  /\ scenario = "refresh"
  /\ revoked = {}

NextRefresh ==
  \/ \E r \in reqs : Grant(r)
  \/ \E r \in reqs : extractCredentials(r)
  \/ \E r \in reqs : checkClient(r)
  \/ \E r \in reqs : getClientCallback(r)
  \/ \E r \in reqs : exposeClient(r)
  \/ \E r \in reqs : checkGrantTypeAllowed(r)
  \/ \E r \in reqs : grantTypeAllowedCallback(r)
  \/ \E r \in reqs : checkGrantType(r)
  \/ \E r \in reqs : getRefreshTokenCallback(r)
  \/ \E r \in reqs : revokeRefreshTokenCallback(r)
  \/ \E r \in reqs : exposeUser(r)
  \/ \E r \in reqs : generateAccessToken(r)
  \/ \E r \in reqs : generateAccessTokenCallback(r)
  \/ \E r \in reqs : saveAccessToken(r)
  \/ \E r \in reqs : saveAccessTokenCallback(r)
  \/ \E r \in reqs : generateRefreshToken(r)
  \/ \E r \in reqs : generateRefreshTokenCallback(r)
  \/ \E r \in reqs : saveRefreshToken(r)
  \/ \E r \in reqs : saveRefreshTokenCallback(r)
  \/ \E r \in reqs : sendResponse(r)

SpecRefresh == InitRefresh /\ [][NextRefresh]_vars

\* the requests that presented the refresh token tok and were answered
\* with a success response
SucceededWith(tok) ==
  {r \in reqs : /\ ctx[r].kind = "grant" /\ ctx[r].grantType = "refresh_token"
                /\ ctx[r].req.payload.refresh_token = tok
                /\ Succeeded(ctx[r])}
RevokeFailureEndsRun(c) ==
  Happened(c, "fail", "revokeRefreshToken") =>
    EndedWith(c, "server_error") /\ NoTokenGenerated(c)

\* C18: with a storage that exposes revokeRefreshToken, a stored refresh
\* token leads to a success response for at most one request, also when
\* the requests presenting it run interleaved, and a revoke failure ends
\* the request with server_error and no token generated.
C18_RefreshTokenUsedOnce ==
  config.hasRevokeRefreshToken =>
    /\ Cardinality(SucceededWith("rt0")) <= 1
    /\ \A c \in Contexts : RevokeFailureEndsRun(c)

\* the part of C18 that does hold: a failed revoke ends the request
RevokeFailureIsFatal == \A c \in Contexts : RevokeFailureEndsRun(c)


\* ---- C19
\* an authorization code record was returned by getAuthCode
AuthCodeReturned(c) ==
  /\ c.kind = "grant" /\ c.grantType = "authorization_code"
  /\ Happened(c, "ok", "getAuthCode") /\ c.record # NoRecord

\* C19: a code found for the authenticated client is rejected with
\* invalid_grant 'Code has expired' exactly when its expires is a timestamp
\* earlier than now (a null expires is never rejected as expired), and a
\* code of another client is rejected with 'Invalid code' whatever its
\* expires.
C19_AuthCodeExpiry ==
  \A c \in Contexts :
    AuthCodeReturned(c) =>
      /\ c.record.clientId = c.client.clientId =>
           (RejectedAsExpired(c, "Code has expired")
              <=> (c.record.expires # Null /\ c.record.expires < c.now))
      /\ c.record.clientId # c.client.clientId =>
           EndedWith(c, "invalid_grant") /\ c.result.err.message = "Invalid code"

\* the part of C19 about codes whose expires is a timestamp
AuthCodeExpiryOfTimestamps ==
  \A c \in Contexts :
    (AuthCodeReturned(c) /\ c.record.expires # Null) =>
      /\ c.record.clientId = c.client.clientId =>
           (RejectedAsExpired(c, "Code has expired") <=> c.record.expires < c.now)
      /\ c.record.clientId # c.client.clientId =>
           EndedWith(c, "invalid_grant") /\ c.result.err.message = "Invalid code"


\* ---- C20
\* the dispatcher was started on a grant type of the extension form
ExtensionDispatched(c) ==
  /\ c.kind = "grant" /\ c.grantType = ExtGrant
  /\ Happened(c, "start", "checkGrantType")
BuiltinLookups == GrantLookups \ {"extendedGrant"}
UsableAnswer(a) == a.supported /\ a.user.present /\ a.user.id # NoStr
\* the run went on past the dispatcher with the user u, and every token
\* saved so far was saved for u
IssuesTokensFor(c, u) ==
  /\ c.pos > 5 /\ c.user = u
  /\ \A i \in 1..Len(c.calls) : c.calls[i].op \in SaveOps => c.calls[i].user = u

\* C20: for a grant type of the extension form, when storage exposes
\* extendedGrant the dispatcher calls extendedGrant and no built-in lookup;
\* an answer (supported, user with an id) lets the run go on to token
\* issuance with exactly that user, an answer with supported = false or a
\* user without id ends it with invalid_request; when storage lacks
\* extendedGrant the request ends with invalid_request without any lookup.
C20_ExtensionDispatch ==
  \A c \in Contexts :
    ExtensionDispatched(c) =>
      /\ config.hasExtendedGrant =>
           /\ Len(CallsOf(c, "extendedGrant")) = 1
           /\ \A i \in 1..Len(c.calls) : c.calls[i].op \notin BuiltinLookups
           /\ c.ext.given =>
                IF UsableAnswer(c.ext)
                THEN IssuesTokensFor(c, c.ext.user)
                ELSE EndedWith(c, "invalid_request") /\ NoTokenGenerated(c)
      /\ ~config.hasExtendedGrant =>
           EndedWith(c, "invalid_request") /\ NoGrantLookup(c) /\ NoTokenGenerated(c)

\* an extension grant answered (true, user u7) whose access token was saved
\* for that user and whose response was sent
C20_Witness ==
  \E c \in Contexts :
    /\ ExtensionDispatched(c) /\ c.ext = ExtAnswer(TRUE, UserWithId)
    /\ Len(CallsOf(c, "saveAccessToken")) = 1
    /\ CallsOf(c, "saveAccessToken")[1].user = UserWithId
    /\ Succeeded(c)

\* an extension grant refused because storage has no extendedGrant
C20_WitnessNoCapability ==
  \E c \in Contexts :
    /\ ExtensionDispatched(c) /\ ~config.hasExtendedGrant
    /\ EndedWith(c, "invalid_request") /\ Len(c.calls) = 2


\* ---- C21
RefreshSteps == {"generateRefreshToken", "saveRefreshToken"}
\* the run stopped in one of the refresh steps: with an error, or by a throw
StoppedInRefreshStep(c) ==
  /\ c.pos > 0 /\ fns(c.kind)[c.pos] \in RefreshSteps
  /\ \/ c.phase = "thrown"
     \/ c.phase = "finished" /\ c.cbErr # NoErr

\* C21: when the configured grants do not include 'refresh_token', no
\* refresh token is generated, saveRefreshToken is never called on storage,
\* the refresh steps raise no error, and the success response has no
\* refresh_token field, in the full pipeline and both pre-approved variants.
C21_NoRefreshTokenWhenNotConfigured ==
  \A c \in Contexts :
    ("refresh_token" \notin config.grants /\ Entered(c)) =>
      /\ c.genRefresh = UndefTok /\ c.refreshToken = UndefTok
      /\ ~Happened(c, "call", "refreshToken")
      /\ Len(CallsOf(c, "saveRefreshToken")) = 0
      /\ ~StoppedInRefreshStep(c)
      /\ Succeeded(c) => Response(c).refresh_token = UndefTok

\* a refresh_token grant answered under a configuration without the
\* refresh_token grant: both refresh steps ran and did nothing
C21_Witness ==
  \E c \in Contexts :
    /\ "refresh_token" \notin config.grants
    /\ c.kind = "grant" /\ c.grantType = "refresh_token" /\ Succeeded(c)
    /\ Happened(c, "done", "generateRefreshToken")
    /\ Happened(c, "done", "saveRefreshToken")
    /\ Response(c).refresh_token = UndefTok /\ Response(c).access_token # UndefTok

\* the same for the stand-alone pre-approved variant
C21_WitnessPreApproved ==
  \E c \in Contexts :
    /\ "refresh_token" \notin config.grants /\ c.kind = "preOld" /\ Succeeded(c)
    /\ Happened(c, "done", "saveRefreshToken")


\* ---- C22
\* the grant-specific lookup of a built-in grant type called back with null
NothingReturned(c) ==
  \/ /\ Happened(c, "ok", "getUser") \/ Happened(c, "ok", "getUserFromClient")
     /\ ~c.user.present
  \/ /\ Happened(c, "ok", "getAuthCode") \/ Happened(c, "ok", "getRefreshToken")
     /\ c.record = NoRecord
\* getAuthCode or getRefreshToken returned a record of another client
ForeignRecordReturned(c) ==
  /\ Happened(c, "ok", "getAuthCode") \/ Happened(c, "ok", "getRefreshToken")
  /\ c.record # NoRecord /\ c.record.clientId # c.client.clientId
MutatingOps == {"saveAccessToken", "saveRefreshToken", "revokeRefreshToken"}
NoMutation(c) == \A i \in 1..Len(c.calls) : c.calls[i].op \notin MutatingOps

\* C22: for each built-in grant type, when the grant-specific lookup
\* (getUser, getUserFromClient, getAuthCode, getRefreshToken) returns null,
\* or returns a code or refresh-token record of another client, the request
\* ends with invalid_grant, no token is generated, saved or revoked, and no
\* response is sent.
C22_FailedLookupIsInvalidGrant ==
  \A c \in Contexts :
    (c.kind = "grant" /\ (NothingReturned(c) \/ ForeignRecordReturned(c))) =>
      /\ EndedWith(c, "invalid_grant")
      /\ NoTokenGenerated(c) /\ NoMutation(c)
      /\ c.sent = NoResponse

\* an authorization code of client c2 presented by client c1, refused
C22_Witness ==
  \E c \in Contexts :
    /\ c.kind = "grant" /\ c.grantType = "authorization_code"
    /\ ForeignRecordReturned(c) /\ c.client.clientId = "c1" /\ c.record.clientId = "c2"
    /\ EndedWith(c, "invalid_grant") /\ c.result.err.message = "Invalid code"

\* a password grant whose getUser returned null, refused
C22_WitnessNoUser ==
  \E c \in Contexts :
    /\ c.kind = "grant" /\ c.grantType = "password" /\ NothingReturned(c)
    /\ EndedWith(c, "invalid_grant")
    /\ c.result.err.message = "User credentials are invalid"


\* ---- C23
\* storage acknowledged a mutation of this run
MutationAcknowledged(c) == \E op \in MutatingOps : Happened(c, "ok", op)
\* the response carries the tokens that were saved
CarriesSavedTokens(c) ==
  /\ \A i \in 1..Len(c.calls) :
       /\ c.calls[i].op = "saveAccessToken" => Response(c).access_token = c.calls[i].token
       /\ c.calls[i].op = "saveRefreshToken" => Response(c).refresh_token = c.calls[i].token
\* the run is over and was not cut short by a throw
Concluded(c) == c.phase \in {"finished", "suspended"}

\* C23 as stated: every run in which revokeRefreshToken, saveAccessToken or
\* saveRefreshToken was called and acknowledged ends with a success
\* response carrying the saved tokens, and never with an error.
C23_Original ==
  \A c \in Contexts :
    (Concluded(c) /\ MutationAcknowledged(c)) =>
      /\ Succeeded(c) /\ CarriesSavedTokens(c)
      /\ c.result.err = NoErr

\* the place of a mutating call in the order revoke, save access, save refresh
MutationRank(op) ==
  IF op = "revokeRefreshToken" THEN 1 ELSE IF op = "saveAccessToken" THEN 2 ELSE 3
MutationsInOrder(c) ==
  \A i, j \in 1..Len(c.calls) :
    (i < j /\ c.calls[i].op \in MutatingOps /\ c.calls[j].op \in MutatingOps) =>
      /\ MutationRank(c.calls[i].op) < MutationRank(c.calls[j].op)
      /\ IndexOf(c, "ok", c.calls[i].op) > 0
\* a mutating call that storage refused is the run's last storage call and
\* ends the run with server_error
RefusedMutationEndsRun(c) ==
  \A i \in 1..Len(c.calls) :
    (c.calls[i].op \in MutatingOps /\ Happened(c, "fail", c.calls[i].op)) =>
      i = Len(c.calls) /\ EndedWith(c, "server_error") /\ ~Succeeded(c)
AllMutationsAcknowledged(c) ==
  \A i \in 1..Len(c.calls) :
    c.calls[i].op \in MutatingOps => Happened(c, "ok", c.calls[i].op)

\* C23 amended: mutations are ordered, not all-or-nothing.  A run makes its
\* mutating calls in the order revokeRefreshToken, saveAccessToken,
\* saveRefreshToken, each at most once and only after the previous one was
\* acknowledged; a refused mutation is the run's last storage call and ends
\* it with server_error; a success response is produced only when every
\* mutating call made was acknowledged, and it carries the saved tokens.
\* Nothing undoes an acknowledged mutation when a later step fails.
C23_MutationsOrderedNotUndone ==
  \A c \in Contexts :
    /\ MutationsInOrder(c)
    /\ RefusedMutationEndsRun(c)
    /\ Succeeded(c) => AllMutationsAcknowledged(c) /\ CarriesSavedTokens(c)

\* a refresh_token grant that ended with server_error after the presented
\* token was revoked and the new access token persisted
C23_Witness ==
  \E c \in Contexts :
    /\ c.kind = "grant" /\ c.grantType = "refresh_token"
    /\ Happened(c, "ok", "revokeRefreshToken") /\ Happened(c, "ok", "saveAccessToken")
    /\ Happened(c, "fail", "saveRefreshToken")
    /\ EndedWith(c, "server_error") /\ ~Succeeded(c)
    /\ c.calls[Len(c.calls)].op = "saveRefreshToken"

====
